---- MODULE Spec2Model ----
(***************************************************************************)
(* Model of submissions/cpp/solution.cpp: main() opens the first candidate *)
(* input file that can be opened, reads it line by line, keeps the values  *)
(* of each station in a std::map<std::string, std::vector<double>>, and    *)
(* prints one "station=min/mean/max" line per station in key order.        *)
(*                                                                         *)
(* A std::string is a sequence of one-character strings.  A double is the  *)
(* integer number of tenths it stands for: the input lines of the model    *)
(* carry at most one fractional digit, so every parsed value, every sum    *)
(* and every min/max is represented exactly; only the mean (a quotient)    *)
(* is not, and its rounding at print time is modelled in MeanRoundings.    *)
(***************************************************************************)
EXTENDS Integers, Sequences, FiniteSets, TLC

(* ------------------------------ bounds -------------------------------- *)

\* longest input file, in lines
MaxLines == 3

(* --------------------------- characters ------------------------------- *)

\* byte value of the characters that occur in the model's files
\* (std::string compares with char_traits<char>::lt, i.e. by byte value)
Ascii ==
    ("-" :> 45) @@ ("." :> 46) @@ ("/" :> 47) @@
    ("0" :> 48) @@ ("1" :> 49) @@ ("2" :> 50) @@ ("3" :> 51) @@ ("4" :> 52) @@
    ("5" :> 53) @@ ("6" :> 54) @@ ("7" :> 55) @@ ("8" :> 56) @@ ("9" :> 57) @@
    (";" :> 59) @@ ("=" :> 61) @@ ("A" :> 65) @@ ("B" :> 66) @@
    ("a" :> 97) @@ ("b" :> 98) @@ ("e" :> 101) @@ ("g" :> 103) @@ ("r" :> 114) @@
    ("x" :> 120) @@ (" " :> 32) @@ ("+" :> 43)

Digits == {"0", "1", "2", "3", "4", "5", "6", "7", "8", "9"}

DigitVal == [c \in Digits |-> Ascii[c] - 48]

DigitChar == [d \in 0..9 |-> CHOOSE c \in Digits : DigitVal[c] = d]

(* ------------------------- std::string helpers ------------------------ *)

\* std::string::npos, the "not found" result of find
npos == -1

\* find as it would be if it reported "not found" as the end of the string
find_never_npos(s, c) ==
    IF \E i \in 1..Len(s) : s[i] = c
    THEN (CHOOSE i \in 1..Len(s) : s[i] = c /\ \A j \in 1..(i - 1) : s[j] # c) - 1
    ELSE Len(s)

\* line.find(c): 0-based index of the first occurrence of c, or npos
find(s, c) ==
    IF \E i \in 1..Len(s) : s[i] = c
    THEN (CHOOSE i \in 1..Len(s) : s[i] = c /\ \A j \in 1..(i - 1) : s[j] # c) - 1
    ELSE npos

\* line.substr(pos, n): at most n characters starting at 0-based pos
substr(s, pos, n) ==
    SubSeq(s, pos + 1, IF pos + n < Len(s) THEN pos + n ELSE Len(s))

\* line.substr(pos): the rest of the string from 0-based pos
substr_rest(s, pos) == SubSeq(s, pos + 1, Len(s))

\* operator< of std::string: lexicographic by byte, a proper prefix is smaller
RECURSIVE StringLess(_, _)
StringLess(a, b) ==
    IF b = <<>> THEN FALSE
    ELSE IF a = <<>> THEN TRUE
    ELSE IF Ascii[Head(a)] # Ascii[Head(b)] THEN Ascii[Head(a)] < Ascii[Head(b)]
    ELSE StringLess(Tail(a), Tail(b))

(* ------------------------------ std::stod ----------------------------- *)

\* number of leading characters of s that belong to set C
RECURSIVE Span(_, _)
Span(s, C) ==
    IF s # <<>> /\ Head(s) \in C THEN 1 + Span(Tail(s), C) ELSE 0

\* value of a string of decimal digits
RECURSIVE DigitsValue(_)
DigitsValue(s) ==
    IF s = <<>> THEN 0 ELSE DigitsValue(SubSeq(s, 1, Len(s) - 1)) * 10 + DigitVal[s[Len(s)]]

\* std::stod(str): skips leading white space, takes an optional sign and the
\* longest prefix "digits [. digits]" with at least one digit, ignores what
\* follows, and throws std::invalid_argument when no conversion can be done.
\* The result is in tenths (see the module comment).
stod(str) ==
    LET ws    == Span(str, {" "})
        s1    == substr_rest(str, ws)
        sgn   == IF s1 # <<>> /\ Head(s1) \in {"-", "+"} THEN 1 ELSE 0
        neg   == sgn = 1 /\ Head(s1) = "-"
        s2    == substr_rest(s1, sgn)
        ni    == Span(s2, Digits)
        s3    == substr_rest(s2, ni)
        dot   == s3 # <<>> /\ Head(s3) = "."
        frac  == IF dot THEN substr(s3, 1, Span(Tail(s3), Digits)) ELSE <<>>
        mag   == DigitsValue(substr(s2, 0, ni)) * 10
                 + (IF frac # <<>> THEN DigitVal[frac[1]] ELSE 0)
    IN  IF ni = 0 /\ frac = <<>>
        THEN [thrown |-> TRUE, value |-> 0]
        ELSE [thrown |-> FALSE, value |-> IF neg THEN 0 - mag ELSE mag]

(* ------------------- operator<< with fixed, precision 1 --------------- *)

\* decimal digits of a natural number
RECURSIVE NatChars(_)
NatChars(n) ==
    IF n < 10 THEN <<DigitChar[n]>> ELSE NatChars(n \div 10) \o <<DigitChar[n % 10]>>

\* std::fixed << std::setprecision(1) << d, where d is negative iff neg and
\* rounds to mag tenths in magnitude (so -0.04 prints as "-0.0")
Fixed1(neg, mag) ==
    (IF neg THEN <<"-">> ELSE <<>>) \o NatChars(mag \div 10) \o <<".", DigitChar[mag % 10]>>

\* a value that is a whole number of tenths prints exactly
FixedValue(v) == Fixed1(v < 0, IF v < 0 THEN 0 - v ELSE v)

\* The tenths the quotient sum / n can round to when printed with one
\* fractional digit.  Off a decimal tie the nearest tenth is printed.  On a
\* tie (x.x5) the digit depends on the binary rounding error of the double
\* sum and quotient (0.1 + 0.2 over 2 prints 0.2, 0.2 + 0.3 over 2 prints
\* 0.2 as well), so both neighbours are possible outcomes.
MeanRoundings(sum, n) ==
    LET q == sum \div n
        r == sum % n
    IN  IF 2 * r < n THEN {q}
        ELSE IF 2 * r > n THEN {q + 1}
        ELSE {q, q + 1}

\* the text printed for the mean sum / n when it rounds to r tenths
FixedMean(sum, r) == Fixed1(sum < 0, IF r < 0 THEN 0 - r ELSE r)


(* ------------------------- the per-station table ---------------------- *)

\* stations[station]: std::map::operator[] inserts an empty vector for a
\* key that is not in the map yet
map_index(st, key) ==
    IF key \in DOMAIN st THEN st ELSE st @@ (key :> <<>>)

\* stations[station].push_back(temp)
push_back(st, key, temp) ==
    [map_index(st, key) EXCEPT ![key] = Append(@, temp)]

\* iteration order of std::map<std::string, ...>: ascending by operator<
RECURSIVE SortedKeys(_)
SortedKeys(K) ==
    IF K = {} THEN <<>>
    ELSE LET m == CHOOSE a \in K : \A b \in K \ {a} : StringLess(a, b)
         IN  <<m>> \o SortedKeys(K \ {m})

\* min_element as it would be if it returned the first element
min_element_first(temps) == temps[1]

\* *std::minmax_element(...).first: the smallest element
RECURSIVE min_element(_)
min_element(temps) ==
    IF Len(temps) = 1 THEN temps[1]
    ELSE LET m == min_element(Tail(temps))
         IN  IF m < Head(temps) THEN m ELSE Head(temps)

\* max_element as it would be if it returned the last element
max_element_last(temps) == temps[Len(temps)]

\* *std::minmax_element(...).second: the largest element
RECURSIVE max_element(_)
max_element(temps) ==
    IF Len(temps) = 1 THEN temps[1]
    ELSE LET m == max_element(Tail(temps))
         IN  IF Head(temps) < m THEN m ELSE Head(temps)

\* accumulate as it would be if its initial value were not zero
RECURSIVE accumulate_init_one(_)
accumulate_init_one(temps) ==
    IF temps = <<>> THEN 1 ELSE Head(temps) + accumulate_init_one(Tail(temps))

\* std::accumulate(temps.begin(), temps.end(), 0.0)
RECURSIVE accumulate(_)
accumulate(temps) ==
    IF temps = <<>> THEN 0 ELSE Head(temps) + accumulate(Tail(temps))

\* the line printed for one station when its mean rounds to r tenths
ReportLine(station, temps, r) ==
    station \o <<"=">> \o FixedValue(min_element(temps)) \o <<"/">>
            \o FixedMean(accumulate(temps), r) \o <<"/">>
            \o FixedValue(max_element(temps))

(* ------------------------------ the files ----------------------------- *)

\* the candidate file names, in the order they are tried
input_files ==
    <<"data/measurements_1m.txt", "data/measurements.txt", "data/test_measurements.txt">>

FileNames == {input_files[n] : n \in 1..Len(input_files)}

\* the lines a file of the model is made of
LineA10    == <<"A", "=", "1", "0", ".", "0">>
LineB20    == <<"B", "=", "2", "0", ".", "0">>
LineA5     == <<"A", "=", "5", ".", "0">>
LineBneg   == <<"B", "=", "-", "1", ".", "5">>
LineAbad   == <<"A", "=", "x">>
LineSemiA10 == <<"A", ";", "1", "0", ".", "0">>
LineSemiB20 == <<"B", ";", "2", "0", ".", "0">>
LineSemiA5  == <<"A", ";", "5", ".", "0">>
LineGarbage == <<"g", "a", "r", "b", "a", "g", "e">>

Lines ==
    {LineA10, LineB20, LineA5, LineBneg, LineAbad,
     LineSemiA10, LineSemiB20, LineSemiA5, LineGarbage}

RECURSIVE SeqsUpTo(_, _)
SeqsUpTo(S, n) ==
    IF n = 0 THEN {<<>>}
    ELSE LET shorter == SeqsUpTo(S, n - 1)
         IN  shorter \cup {Append(s, x) : s \in {t \in shorter : Len(t) = n - 1}, x \in S}

Inputs == SeqsUpTo(Lines, MaxLines)

\* what the lower-priority or higher-priority files hold when they exist
\* next to the file under study
OtherContent == <<LineBneg>>

(* ------------------------------- state -------------------------------- *)

VARIABLES
    fs,        \* the file system: name -> [exists, lines]
    opened,    \* the names passed to file.open, in call order
    i,         \* position of the for loop in input_files
    file,      \* the std::ifstream
    line,      \* the std::string line
    stations,  \* the std::map from station to its vector of values
    it,        \* number of map entries the report loop has visited
    out,       \* lines written to std::cout
    err,       \* lines written to std::cerr
    exitCode,  \* exit status of the process, -1 while it runs
    pc         \* "open", "check", "read", "report", "done"

vars == <<fs, opened, i, file, line, stations, it, out, err, exitCode, pc>>

ClosedStream ==
    [is_open |-> FALSE, name |-> "", failbit |-> FALSE, eofbit |-> FALSE, pos |-> 0]

Init ==
    /\ \E avail \in SUBSET FileNames, main \in FileNames, inp \in Inputs :
          /\ avail = {} \/ main \in avail
          /\ fs = [f \in FileNames |->
                     IF f \notin avail THEN [exists |-> FALSE, lines |-> <<>>]
                     ELSE IF f = main THEN [exists |-> TRUE, lines |-> inp]
                     ELSE [exists |-> TRUE, lines |-> OtherContent]]
    /\ opened = <<>>
    /\ i = 1
    /\ file = ClosedStream
    /\ line = <<>>
    /\ stations = <<>>
    /\ it = 0
    /\ out = <<>>
    /\ err = <<>>
    /\ exitCode = -1
    /\ pc = "open"

(* ------------------------------ actions ------------------------------- *)

\* std::ifstream::open: fails (failbit) when the stream is already open or
\* the file cannot be opened; on success the state flags are cleared
ifstream_open(f, filename) ==
    IF f.is_open \/ ~fs[filename].exists
    THEN [f EXCEPT !.failbit = TRUE]
    ELSE [is_open |-> TRUE, name |-> filename, failbit |-> FALSE, eofbit |-> FALSE, pos |-> 0]

\* the for loop as it would be without the break after a successful open
OpenNext_no_break ==
    /\ pc = "open"
    /\ IF i > Len(input_files)
       THEN /\ pc' = "check"
            /\ UNCHANGED <<opened, i, file>>
       ELSE /\ opened' = Append(opened, input_files[i])
            /\ file' = ifstream_open(file, input_files[i])
            /\ pc' = "open"
            /\ i' = i + 1
    /\ UNCHANGED <<fs, line, stations, it, out, err, exitCode>>

\* one iteration of the for loop over input_files, with the loop exit
OpenNext ==
    /\ pc = "open"
    /\ IF i > Len(input_files)
       THEN /\ pc' = "check"
            /\ UNCHANGED <<opened, i, file>>
       ELSE /\ opened' = Append(opened, input_files[i])
            /\ file' = ifstream_open(file, input_files[i])
            /\ IF file'.is_open
               THEN pc' = "check" /\ i' = i
               ELSE pc' = "open" /\ i' = i + 1
    /\ UNCHANGED <<fs, line, stations, it, out, err, exitCode>>

\* the program as it would be without the is_open check before the read loop
CheckOpen_unchecked ==
    /\ pc = "check"
    /\ pc' = "read"
    /\ UNCHANGED <<fs, opened, i, file, line, stations, it, out, err, exitCode>>

\* if (!file.is_open()) { std::cerr << ...; return 1; }
CheckOpen ==
    /\ pc = "check"
    /\ IF ~file.is_open
       THEN /\ err' = Append(err, "Error: Could not open file")
            /\ exitCode' = 1
            /\ pc' = "done"
       ELSE /\ pc' = "read"
            /\ UNCHANGED <<err, exitCode>>
    /\ UNCHANGED <<fs, opened, i, file, line, stations, it, out>>

\* std::getline(file, line) can deliver a line
CanGetLine ==
    file.is_open /\ ~file.failbit /\ file.pos < Len(fs[file.name].lines)

\* the line the next std::getline delivers
NextLine == fs[file.name].lines[file.pos + 1]

\* std::getline fails at the end of the input: the while loop ends
EndOfInput ==
    /\ pc = "read"
    /\ ~CanGetLine
    /\ file' = [file EXCEPT !.eofbit = TRUE, !.failbit = TRUE]
    /\ pc' = "report"
    /\ UNCHANGED <<fs, opened, i, line, stations, it, out, err, exitCode>>

\* a line without '=': the if body is not entered
SkipLine ==
    /\ pc = "read"
    /\ CanGetLine
    /\ find(NextLine, "=") = npos
    /\ line' = NextLine
    /\ file' = [file EXCEPT !.pos = @ + 1]
    /\ UNCHANGED <<fs, opened, i, stations, it, out, err, exitCode, pc>>

\* a line with '=' whose value std::stod converts
Accumulate ==
    /\ pc = "read"
    /\ CanGetLine
    /\ LET pos == find(NextLine, "=")
       IN  /\ pos # npos
           /\ LET station == substr(NextLine, 0, pos)
                  temp    == stod(substr_rest(NextLine, pos + 1))
              IN  /\ ~temp.thrown
                  /\ stations' = push_back(stations, station, temp.value)
    /\ line' = NextLine
    /\ file' = [file EXCEPT !.pos = @ + 1]
    /\ UNCHANGED <<fs, opened, i, it, out, err, exitCode, pc>>

\* a line with '=' whose value std::stod cannot convert: std::invalid_argument
\* is thrown, nothing catches it, std::terminate aborts the process (SIGABRT,
\* status 134 as a shell reports it) after a message on the error stream
StodThrows ==
    /\ pc = "read"
    /\ CanGetLine
    /\ LET pos == find(NextLine, "=")
       IN  /\ pos # npos
           /\ stod(substr_rest(NextLine, pos + 1)).thrown
    /\ line' = NextLine
    /\ file' = [file EXCEPT !.pos = @ + 1]
    /\ err' = Append(err, "terminate called after throwing an instance of 'std::invalid_argument'")
    /\ exitCode' = 134
    /\ pc' = "done"
    /\ UNCHANGED <<fs, opened, i, stations, it, out>>

\* one iteration of the report loop: the next station in key order
PrintStation ==
    /\ pc = "report"
    /\ it < Cardinality(DOMAIN stations)
    /\ LET station == SortedKeys(DOMAIN stations)[it + 1]
           temps   == stations[station]
       IN  \E r \in MeanRoundings(accumulate(temps), Len(temps)) :
              out' = Append(out, ReportLine(station, temps, r))
    /\ it' = it + 1
    /\ UNCHANGED <<fs, opened, i, file, line, stations, err, exitCode, pc>>

\* the report loop is over: return 0
ReturnZero ==
    /\ pc = "report"
    /\ it = Cardinality(DOMAIN stations)
    /\ exitCode' = 0
    /\ pc' = "done"
    /\ UNCHANGED <<fs, opened, i, file, line, stations, it, out, err>>

Next ==
    \/ OpenNext
    \/ CheckOpen
    \/ EndOfInput
    \/ SkipLine
    \/ Accumulate
    \/ StodThrows
    \/ PrintStation
    \/ ReturnZero

Spec == Init /\ [][Next]_vars

\* the read loop as a function of the lines: the table after the last line,
\* or the table at the line where std::stod throws
RECURSIVE ReadAll(_, _)
ReadAll(lines, st) ==
    IF lines = <<>> THEN [thrown |-> FALSE, stations |-> st]
    ELSE LET pos == find(Head(lines), "=")
         IN  IF pos = npos THEN ReadAll(Tail(lines), st)
             ELSE LET temp == stod(substr_rest(Head(lines), pos + 1))
                  IN  IF temp.thrown THEN [thrown |-> TRUE, stations |-> st]
                      ELSE ReadAll(Tail(lines),
                                   push_back(st, substr(Head(lines), 0, pos), temp.value))

\* rep is what the report loop prints for table st
IsReportOf(rep, st) ==
    /\ Len(rep) = Cardinality(DOMAIN st)
    /\ \A n \in 1..Len(rep) :
          LET station == SortedKeys(DOMAIN st)[n]
          IN  \E r \in MeanRoundings(accumulate(st[station]), Len(st[station])) :
                 rep[n] = ReportLine(station, st[station], r)

(* ------------------- vocabulary of the properties --------------------- *)

\* the lines of the source the stream is bound to
Input == IF file.is_open THEN fs[file.name].lines ELSE <<>>

\* position of the first c in s, 0 when there is none
FirstIndex(s, c) ==
    IF \E n \in 1..Len(s) : s[n] = c
    THEN CHOOSE n \in 1..Len(s) : s[n] = c /\ \A m \in 1..(n - 1) : s[m] # c
    ELSE 0

HasDelimiter(l) == FirstIndex(l, "=") # 0

KeyOf(l) == SubSeq(l, 1, FirstIndex(l, "=") - 1)

ValueTextOf(l) == SubSeq(l, FirstIndex(l, "=") + 1, Len(l))

\* a valid record: it has the delimiter and the text after it is a number
ValidRecord(l) == HasDelimiter(l) /\ ~stod(ValueTextOf(l)).thrown

\* a record with the delimiter whose value is not a number
BadValueRecord(l) == HasDelimiter(l) /\ stod(ValueTextOf(l)).thrown

ValidKeys(lines) == {KeyOf(lines[n]) : n \in {m \in 1..Len(lines) : ValidRecord(lines[m])}}

\* the records of key k in lines, as positions
RecordsOf(lines, k) == {n \in 1..Len(lines) : ValidRecord(lines[n]) /\ KeyOf(lines[n]) = k}

ValueAt(lines, n) == stod(ValueTextOf(lines[n])).value

RECURSIVE SumOver(_, _)
SumOver(lines, P) ==
    IF P = {} THEN 0
    ELSE LET n == CHOOSE m \in P : TRUE IN ValueAt(lines, n) + SumOver(lines, P \ {n})

\* the three fields of a printed line "key=min/mean/max", as tenths
PrintedStats(pl) ==
    LET rest1 == ValueTextOf(pl)
        s1    == FirstIndex(rest1, "/")
        rest2 == SubSeq(rest1, s1 + 1, Len(rest1))
        s2    == FirstIndex(rest2, "/")
    IN  [min  |-> stod(SubSeq(rest1, 1, s1 - 1)).value,
         mean |-> stod(SubSeq(rest2, 1, s2 - 1)).value,
         max  |-> stod(SubSeq(rest2, s2 + 1, Len(rest2))).value]

RemoveAt(s, n) == SubSeq(s, 1, n - 1) \o SubSeq(s, n + 1, Len(s))

\* number of values the table holds
RECURSIVE RetainedIn(_, _)
RetainedIn(st, K) ==
    IF K = {} THEN 0
    ELSE LET k == CHOOSE x \in K : TRUE IN Len(st[k]) + RetainedIn(st, K \ {k})

Retained == RetainedIn(stations, DOMAIN stations)

FirstAvailable ==
    IF \E n \in 1..Len(input_files) : fs[input_files[n]].exists
    THEN CHOOSE n \in 1..Len(input_files) :
            fs[input_files[n]].exists /\ \A m \in 1..(n - 1) : ~fs[input_files[m]].exists
    ELSE 0

(* ----------------------------- properties ----------------------------- *)

\* C1: when the program has ended on an opened source, the keys of the printed
\* lines are exactly the keys of the valid records of the input, each printed
\* once, in strictly ascending lexicographic order.
C1_ReportKeysAreValidKeys ==
    (pc = "done" /\ file.is_open) =>
        /\ {KeyOf(out[n]) : n \in 1..Len(out)} = ValidKeys(Input)
        /\ \A n \in 1..(Len(out) - 1) : StringLess(KeyOf(out[n]), KeyOf(out[n + 1]))

\* C2: every printed line carries the statistics of a reference that keeps all
\* values of its key: the smallest, the largest, and sum / count to the
\* nearest printed tenth.
C2_StatisticsMatchReference ==
    \A n \in 1..Len(out) :
        LET P     == RecordsOf(Input, KeyOf(out[n]))
            stats == PrintedStats(out[n])
            d     == stats.mean * Cardinality(P) - SumOver(Input, P)
        IN  /\ P # {}
            /\ \E p \in P : ValueAt(Input, p) = stats.min
            /\ \A p \in P : stats.min <= ValueAt(Input, p)
            /\ \E p \in P : ValueAt(Input, p) = stats.max
            /\ \A p \in P : ValueAt(Input, p) <= stats.max
            /\ 2 * d <= Cardinality(P) /\ 2 * (0 - d) <= Cardinality(P)

C2_Witness ==
    /\ pc = "done"
    /\ \E n \in 1..Len(out) :
          /\ Cardinality(RecordsOf(Input, KeyOf(out[n]))) >= 2
          /\ PrintedStats(out[n]).min < PrintedStats(out[n]).max

\* C3: a key of the table always has at least one value, and every printed
\* line satisfies min <= mean <= max.
C3_CountAndOrder ==
    /\ \A k \in DOMAIN stations : Len(stations[k]) >= 1
    /\ \A n \in 1..Len(out) :
          /\ KeyOf(out[n]) \in DOMAIN stations
          /\ PrintedStats(out[n]).min <= PrintedStats(out[n]).mean
          /\ PrintedStats(out[n]).mean <= PrintedStats(out[n]).max

C3_Witness ==
    /\ pc = "done"
    /\ \E n \in 1..Len(out) :
          /\ PrintedStats(out[n]).min < PrintedStats(out[n]).mean
          /\ PrintedStats(out[n]).mean < PrintedStats(out[n]).max
    /\ \E n \in 1..Len(out) : PrintedStats(out[n]).min = PrintedStats(out[n]).max

\* C4: when no candidate can be opened the program never reads or reports,
\* writes nothing to standard output, and ends with a non-zero exit code and
\* a message on the error stream.
C4_NoInputAvailable ==
    FirstAvailable = 0 =>
        /\ pc \notin {"read", "report"}
        /\ out = <<>>
        /\ stations = <<>>
        /\ pc = "done" => (exitCode # 0 /\ Len(err) = 1)

C4_Witness == FirstAvailable = 0 /\ pc = "done" /\ Len(opened) = Len(input_files)

\* C5: the candidates are tried in list order, no candidate after the first
\* one that opens is tried, and the stream that is read is bound to the first
\* candidate that can be opened.
C5_FirstAvailableWins ==
    /\ Len(opened) <= Len(input_files)
    /\ \A n \in 1..Len(opened) : opened[n] = input_files[n]
    /\ \A n \in 1..(Len(opened) - 1) : ~fs[opened[n]].exists
    /\ file.is_open <=> (FirstAvailable # 0 /\ Len(opened) = FirstAvailable)
    /\ file.is_open => file.name = input_files[FirstAvailable]
    /\ pc \in {"read", "report"} => file.is_open
    /\ line # <<>> => \E n \in 1..file.pos : line = fs[input_files[FirstAvailable]].lines[n]
    /\ pc = "report" => file.pos = Len(fs[input_files[FirstAvailable]].lines)

C5_Witness ==
    /\ pc = "done" /\ exitCode = 0 /\ out # <<>>
    /\ FirstAvailable = 2
    /\ fs[input_files[3]].exists
    /\ fs[input_files[3]].lines # fs[input_files[2]].lines

\* processing a line without the delimiter changes nothing but the position
C6_Step ==
    (pc = "read" /\ CanGetLine /\ ~HasDelimiter(NextLine)) =>
        /\ stations' = stations
        /\ pc' = "read"
        /\ file'.pos = file.pos + 1
        /\ out' = out /\ err' = err /\ exitCode' = exitCode

\* the run ends as the run on the input without a delimiter-less line does
C6_Final ==
    (pc = "done" /\ file.is_open) =>
        \A n \in 1..Len(Input) :
            ~HasDelimiter(Input[n]) =>
                LET res == ReadAll(RemoveAt(Input, n), <<>>)
                IN  /\ stations = res.stations
                    /\ res.thrown <=> exitCode # 0
                    /\ IF res.thrown THEN out = <<>> ELSE IsReportOf(out, res.stations)

\* C6: a line without the delimiter leaves the table unchanged and reading
\* goes on with the next line; the final table, report and exit status are
\* those of the same input without that line.
C6_NoDelimiterLineSkipped == []C6_Final /\ [][C6_Step]_vars

C6_Witness ==
    /\ pc = "done" /\ exitCode = 0 /\ Len(out) = 2
    /\ \E n \in 1..Len(Input) : ~HasDelimiter(Input[n])

\* C7: a line with the delimiter whose value is not a number is skipped like
\* a line without delimiter: the table is unchanged, reading goes on, and the
\* program does not end there.
C7_BadValueSkipped ==
    [][(pc = "read" /\ CanGetLine /\ BadValueRecord(NextLine)) =>
          /\ stations' = stations
          /\ pc' = "read"
          /\ exitCode' = exitCode]_vars

\* C8: the number of values the program retains is at most the number of
\* distinct keys seen so far.
C8_RetainedBoundedByKeys == Retained <= Cardinality(DOMAIN stations)

\* Scenario A with ';' between key and value, and with '='
ScenarioASemicolon == <<LineSemiA10, LineSemiB20, LineSemiA5>>

ScenarioAEquals == <<LineA10, LineB20, LineA5>>

\* the two lines A=5.0/7.5/10.0 and B=20.0/20.0/20.0
ScenarioAReport ==
    << <<"A", "=", "5", ".", "0", "/", "7", ".", "5", "/", "1", "0", ".", "0">>,
       <<"B", "=", "2", "0", ".", "0", "/", "2", "0", ".", "0", "/", "2", "0", ".", "0">> >>

\* C9 (as stated): on the input A;10.0 B;20.0 A;5.0 the program prints
\* A=5.0/7.5/10.0 then B=20.0/20.0/20.0 and exits with code 0.

C9_ScenarioASemicolon ==
    (pc = "done" /\ file.is_open /\ Input = ScenarioASemicolon) =>
        (out = ScenarioAReport /\ exitCode = 0)

\* C9 (amended): on the input A=10.0 B=20.0 A=5.0, whose records use the
\* delimiter '=', the program prints A=5.0/7.5/10.0 then B=20.0/20.0/20.0 and
\* exits with code 0.
C9_ScenarioAEquals ==
    (pc = "done" /\ file.is_open /\ Input = ScenarioAEquals) =>
        (out = ScenarioAReport /\ exitCode = 0)

C9_Witness == pc = "done" /\ file.is_open /\ Input = ScenarioAEquals

\* C10: nothing is printed before the input has been read to its end, the
\* table does not change once reporting has begun, and once a source has
\* opened the program ends with exit code 0.
C10_PhasesThenExitZero ==
    /\ out # <<>> => (pc \in {"report", "done"} /\ file.eofbit)
    /\ pc = "report" => (file.eofbit /\ stations = ReadAll(Input, <<>>).stations)
    /\ (pc = "done" /\ file.is_open) => (exitCode = 0 /\ IsReportOf(out, stations))

====
